---- MODULE Spec2Model ----
(***************************************************************************)
(* The truthbeam enrichment cache: CacheableClient (double-checked locking *)
(* around a go-cache store and the compass enrich API) and the processor   *)
(* loop that drives it over a batch of log records.                        *)
(***************************************************************************)
EXTENDS Integers, Sequences, FiniteSets, TLC

\* ------------------------------------------------------------------ bounds
NumCallers == 2
MaxCalls == 2
MaxTime == 3
MaxRecords == 3

Callers == 1..NumCallers

\* ------------------------------------------------------------- data model
\* cache.NoExpiration of go-cache (time.Duration(-1)).
NoExpiration == -1

\* Policy: the lookup value handed to Retrieve.
Policies ==
    { [PolicyRuleId |-> "r1", PolicyEngineName |-> "e1"],
      [PolicyRuleId |-> "r1", PolicyEngineName |-> "e2"],
      [PolicyRuleId |-> "r2", PolicyEngineName |-> "e1"] }

RuleIds == { p.PolicyRuleId : p \in Policies }

NoPolicy == [PolicyRuleId |-> "", PolicyEngineName |-> ""]

\* Compliance: what the enrich API answers for a policy. `policy` is the
\* policy of the request it answers, `ver` the remote data's revision.
ZeroCompliance == [policy |-> NoPolicy, ver |-> 0]

Compliance(p, v) == [policy |-> p, ver |-> v]

\* The revisions of the remote data an answer can carry.
Versions == {1, 2}

\* The ttl values NewCacheableClient is constructed with.
TTLValues == {NoExpiration, 2}

\* The ttl values a configuration can give: Config.CacheTTL is 0 when
\* cache_ttl is not set, and no value is rejected by Validate.
ConfigTTLs == {-2, NoExpiration, 0, 1, 2}

\* The two Retrieve implementations of the repository.
Variants == {"cacheable", "part_000"}

\* An error value: the sequence of message parts, outermost wrapping first.
\* nil is the empty sequence.
NoErr == <<>>

\* ------------------------------------------------------------------ state
VARIABLES
    variant,            \* which Retrieve implementation runs
    defaultExpiration,  \* cache.defaultExpiration (ttl given to cache.New)
    cleanupInterval,    \* janitor interval given to cache.New
    items,              \* cache.items: rule id -> item or NoItem
    mu,                 \* CacheableClient.mu: 0 when free, else the holder
    now,                \* the clock
    pc,                 \* position of every goroutine inside Retrieve
    policy,             \* Retrieve's policy argument
    ctxDone,            \* where the caller's ctx was cancelled ("no" if not)
    compliance,         \* Retrieve's local: the fetched compliance
    waited,             \* the error of a same-key fetch that failed while
                        \* the caller waited for the mutex (nil if none)
    ret,                \* last return of Retrieve: [val, err, how]
    calls,              \* Retrieve calls made so far
    fetches,            \* callEnrich history per rule id
    ld,                 \* processLogs' batch: resource logs / scope logs / records
    proc,               \* processLogs' position and return
    trace               \* the Extract, Retrieve and Apply calls processLogs made

vars == <<variant, defaultExpiration, cleanupInterval, items, mu, now, pc,
          policy, ctxDone, compliance, waited, ret, calls, fetches, ld, proc,
          trace>>

batchVars == <<ld, proc, trace>>

NoItem == [Object |-> ZeroCompliance, Expiration |-> -2]

\* how: "first" or "second" (which cache.Get hit), "fetched", "failed".
NoRet == [val |-> ZeroCompliance, err |-> NoErr, how |-> "none"]

NoFetches == [started |-> 0, ok |-> 0]

\* --------------------------------------------------------------- go-cache
\* Go's integer division truncates toward zero.
GoDiv(a, b) == IF a >= 0 THEN a \div b ELSE -((-a) \div b)

\* cleanupInterval chosen by NewCacheableClient.
CleanupIntervalFor(ttl) ==
    IF ttl = NoExpiration THEN NoExpiration ELSE GoDiv(ttl, 2)

\* Mutant of Expired: the item already counts as expired at its expiration.
ExpiredEarly(item, t) == item.Expiration > 0 /\ t >= item.Expiration

\* Item.Expired as Get and DeleteExpired use it.
Expired(item, t) == item.Expiration > 0 /\ t > item.Expiration

\* cache.Get: (value, found).
CacheGet(its, k, t) ==
    IF its[k] = NoItem \/ Expired(its[k], t)
    THEN [value |-> ZeroCompliance, found |-> FALSE]
    ELSE [value |-> its[k].Object, found |-> TRUE]

\* Mutant of CacheSet: the configured expiration is applied whatever its sign.
CacheSetUnguarded(its, k, x, d, t) ==
    [its EXCEPT ![k] = [Object |-> x, Expiration |-> t + d]]

\* cache.Set(k, x, cache.DefaultExpiration): the configured expiration is
\* applied when it is positive, otherwise the item never expires.
CacheSet(its, k, x, d, t) ==
    [its EXCEPT ![k] = [Object |-> x,
                        Expiration |-> IF d > 0 THEN t + d ELSE 0]]

\* ------------------------------------------------------------- callEnrich
\* What the remote side can answer to PostV1Enrich for policy p.
Responses(p) ==
    { [kind |-> "transport", body |-> ZeroCompliance],
      [kind |-> "parse", body |-> ZeroCompliance],
      [kind |-> "jsonDefault", body |-> ZeroCompliance],
      [kind |-> "other", body |-> ZeroCompliance] }
    \cup { [kind |-> "json200", body |-> Compliance(p, v)] : v \in Versions }

\* With the request's ctx done, PostV1Enrich fails or the body cannot be read.
ResponsesCtx(p, done) ==
    IF done THEN { r \in Responses(p) : r.kind \in {"transport", "parse"} }
    ELSE Responses(p)

\* Mutant of callEnrich: an unexpected response becomes an empty success.
callEnrichCoerced(r) ==
    CASE r.kind = "transport" -> [resp |-> ZeroCompliance, err |-> <<"transport">>]
      [] r.kind = "parse" -> [resp |-> ZeroCompliance, err |-> <<"parse">>]
      [] r.kind = "json200" -> [resp |-> r.body, err |-> NoErr]
      [] r.kind = "jsonDefault" ->
            [resp |-> ZeroCompliance,
             err |-> <<"API call failed with status", "code", "message">>]
      [] OTHER -> [resp |-> ZeroCompliance, err |-> NoErr]

\* callEnrich of cacheable.go on a remote answer: (response, err).
callEnrich(r) ==
    CASE r.kind = "transport" -> [resp |-> ZeroCompliance, err |-> <<"transport">>]
      [] r.kind = "parse" -> [resp |-> ZeroCompliance, err |-> <<"parse">>]
      [] r.kind = "json200" -> [resp |-> r.body, err |-> NoErr]
      [] r.kind = "jsonDefault" ->
            [resp |-> ZeroCompliance,
             err |-> <<"API call failed with status", "code", "message">>]
      [] OTHER -> [resp |-> ZeroCompliance,
                   err |-> <<"unexpected response status", "status">>]

\* callEnrich of part_000: no structured error branch.
callEnrichPart000(r) ==
    CASE r.kind = "transport" -> [resp |-> ZeroCompliance, err |-> <<"transport">>]
      [] r.kind = "parse" -> [resp |-> ZeroCompliance, err |-> <<"parse">>]
      [] r.kind = "json200" -> [resp |-> r.body, err |-> NoErr]
      [] OTHER -> [resp |-> ZeroCompliance,
                   err |-> <<"unexpected response status", "status">>]

\* fetchMetadata of part_000 wraps callEnrich's error once more.
fetchMetadata(r) ==
    LET e == callEnrichPart000(r)
    IN  IF e.err # NoErr
        THEN [resp |-> ZeroCompliance,
              err |-> <<"failed to call metadata API">> \o e.err]
        ELSE e

\* The fetch as the running variant performs it.
Fetch(v, r) == IF v = "cacheable" THEN callEnrich(r) ELSE fetchMetadata(r)

\* --------------------------------------------------------------- Retrieve
CacheKey(p) == p.PolicyRuleId

\* Retrieve returns (val, err) to its caller.
Returns(c, val, err, how) ==
    /\ pc' = [pc EXCEPT ![c] = "idle"]
    /\ ret' = [ret EXCEPT ![c] = [val |-> val, err |-> err, how |-> how]]
    /\ ctxDone' = [ctxDone EXCEPT ![c] = "no"]
    /\ compliance' = [compliance EXCEPT ![c] = ZeroCompliance]

\* The deferred c.mu.Unlock().
Unlock == mu' = 0

\* The goroutine that runs processLogs, when a batch is processed.
Processor == 1

\* A goroutine calls Retrieve(ctx, p) with a live ctx.
Call(c, p) ==
    /\ pc[c] = "idle"
    /\ calls < MaxCalls
    /\ proc.state = "off" \/ c # Processor
    /\ pc' = [pc EXCEPT ![c] = "get1"]
    /\ policy' = [policy EXCEPT ![c] = p]
    /\ calls' = calls + 1
    /\ ret' = [ret EXCEPT ![c] = NoRet]
    /\ UNCHANGED <<variant, defaultExpiration, cleanupInterval, items, mu,
                   now, ctxDone, compliance, waited, fetches>>
    /\ UNCHANGED batchVars

\* Mutant of FirstCheck: the first lookup's result is ignored.
FirstCheckIgnored(c) ==
    /\ pc[c] = "get1"
    /\ pc' = [pc EXCEPT ![c] = "lock"]
    /\ UNCHANGED <<variant, defaultExpiration, cleanupInterval, items, mu,
                   now, policy, ctxDone, compliance, waited, ret, calls,
                   fetches>>
    /\ UNCHANGED batchVars

\* Mutant of FirstCheck: the first lookup is made under the mutex.
FirstCheckLocked(c) ==
    /\ pc[c] = "get1"
    /\ mu = 0
    /\ LET g == CacheGet(items, CacheKey(policy[c]), now)
       IN  IF g.found
           THEN Returns(c, g.value, NoErr, "first")
           ELSE /\ pc' = [pc EXCEPT ![c] = "lock"]
                /\ UNCHANGED <<ret, ctxDone, compliance>>
    /\ UNCHANGED <<variant, defaultExpiration, cleanupInterval, items, mu,
                   now, policy, waited, calls, fetches>>
    /\ UNCHANGED batchVars

\* The first cache.Get, without the lock: return on a hit, else go for the lock.
FirstCheck(c) ==
    /\ pc[c] = "get1"
    /\ LET g == CacheGet(items, CacheKey(policy[c]), now)
       IN  IF g.found
           THEN Returns(c, g.value, NoErr, "first")
           ELSE /\ pc' = [pc EXCEPT ![c] = "lock"]
                /\ UNCHANGED <<ret, ctxDone, compliance>>
    /\ UNCHANGED <<variant, defaultExpiration, cleanupInterval, items, mu,
                   now, policy, waited, calls, fetches>>
    /\ UNCHANGED batchVars

\* Mutant of Lock: the caller goes on without waiting for the mutex.
LockNoWait(c) ==
    /\ pc[c] = "lock"
    /\ mu' = c
    /\ pc' = [pc EXCEPT ![c] = IF variant = "cacheable" THEN "get2" ELSE "call"]
    /\ UNCHANGED <<variant, defaultExpiration, cleanupInterval, items, now,
                   policy, ctxDone, compliance, waited, ret, calls, fetches>>
    /\ UNCHANGED batchVars

\* Mutant of Lock: both variants look the key up again under the mutex.
LockThenRecheck(c) ==
    /\ pc[c] = "lock"
    /\ mu = 0
    /\ mu' = c
    /\ pc' = [pc EXCEPT ![c] = "get2"]
    /\ UNCHANGED <<variant, defaultExpiration, cleanupInterval, items, now,
                   policy, ctxDone, compliance, waited, ret, calls, fetches>>
    /\ UNCHANGED batchVars

\* c.mu.Lock(): blocks until the mutex is free, whatever the ctx says.
\* cacheable.go goes on to the second Get, part_000 straight to the fetch.
Lock(c) ==
    /\ pc[c] = "lock"
    /\ mu = 0
    /\ mu' = c
    /\ pc' = [pc EXCEPT ![c] = IF variant = "cacheable" THEN "get2" ELSE "call"]
    /\ UNCHANGED <<variant, defaultExpiration, cleanupInterval, items, now,
                   policy, ctxDone, compliance, waited, ret, calls, fetches>>
    /\ UNCHANGED batchVars

\* Mutant of SecondCheck: no lookup under the lock, straight to the fetch.
SecondCheckSkipped(c) ==
    /\ pc[c] = "get2"
    /\ pc' = [pc EXCEPT ![c] = "call"]
    /\ UNCHANGED <<variant, defaultExpiration, cleanupInterval, items, mu,
                   now, policy, ctxDone, compliance, waited, ret, calls,
                   fetches>>
    /\ UNCHANGED batchVars

\* The second cache.Get, under the lock: return (and unlock) on a hit.
SecondCheck(c) ==
    /\ pc[c] = "get2"
    /\ LET g == CacheGet(items, CacheKey(policy[c]), now)
       IN  IF g.found
           THEN /\ Returns(c, g.value, NoErr, "second")
                /\ Unlock
                /\ waited' = [waited EXCEPT ![c] = NoErr]
           ELSE /\ pc' = [pc EXCEPT ![c] = "call"]
                /\ UNCHANGED <<mu, ret, ctxDone, compliance, waited>>
    /\ UNCHANGED <<variant, defaultExpiration, cleanupInterval, items, now,
                   policy, calls, fetches>>
    /\ UNCHANGED batchVars

\* Mutant of CallEnrich: the mutex is dropped for the time of the fetch.
CallEnrichUnlocked(c) ==
    /\ pc[c] = "call"
    /\ pc' = [pc EXCEPT ![c] = "enrich"]
    /\ fetches' = [fetches EXCEPT ![CacheKey(policy[c])].started = @ + 1]
    /\ Unlock
    /\ UNCHANGED <<variant, defaultExpiration, cleanupInterval, items,
                   now, policy, ctxDone, compliance, waited, ret, calls>>
    /\ UNCHANGED batchVars

\* callEnrich is invoked: the request for the policy goes out.
CallEnrich(c) ==
    /\ pc[c] = "call"
    /\ pc' = [pc EXCEPT ![c] = "enrich"]
    /\ fetches' = [fetches EXCEPT ![CacheKey(policy[c])].started = @ + 1]
    /\ UNCHANGED <<variant, defaultExpiration, cleanupInterval, items, mu,
                   now, policy, ctxDone, compliance, waited, ret, calls>>
    /\ UNCHANGED batchVars

\* Mutant of FetchFailed: the zero Compliance of the failed fetch is cached.
FetchFailedCached(c, err) ==
    /\ Returns(c, ZeroCompliance, <<"failed to fetch metadata">> \o err, "failed")
    /\ Unlock
    /\ waited' = [waited EXCEPT ![c] = NoErr]
    /\ items' = CacheSet(items, CacheKey(policy[c]), ZeroCompliance,
                         defaultExpiration, now)
    /\ UNCHANGED fetches

\* Mutant of FetchFailed: the failed fetch is tried again under the mutex.
FetchFailedRetried(c, err) ==
    /\ pc' = [pc EXCEPT ![c] = "call"]
    /\ UNCHANGED <<mu, ret, ctxDone, compliance, items, waited, fetches>>

\* The error path of Retrieve: the error is logged and returned wrapped, the
\* deferred Unlock runs, the cache is not touched. The callers waiting for
\* the mutex on the same key are marked.
FetchFailed(c, err) ==
    /\ Returns(c, ZeroCompliance, <<"failed to fetch metadata">> \o err, "failed")
    /\ Unlock
    /\ waited' = [d \in Callers |->
                     IF d # c /\ pc[d] = "lock"
                        /\ CacheKey(policy[d]) = CacheKey(policy[c])
                     THEN err
                     ELSE IF d = c THEN NoErr ELSE waited[d]]
    /\ UNCHANGED <<items, fetches>>

\* Mutant of FetchSucceeded: the mutex is released before cache.Set.
FetchSucceededUnlocked(c, resp) ==
    /\ pc' = [pc EXCEPT ![c] = "set"]
    /\ compliance' = [compliance EXCEPT ![c] = resp]
    /\ fetches' = [fetches EXCEPT ![CacheKey(policy[c])].ok = @ + 1]
    /\ Unlock
    /\ UNCHANGED <<ret, ctxDone, items, waited>>

\* The success path up to cache.Set: compliance := resp.Compliance.
FetchSucceeded(c, resp) ==
    /\ pc' = [pc EXCEPT ![c] = "set"]
    /\ compliance' = [compliance EXCEPT ![c] = resp]
    /\ fetches' = [fetches EXCEPT ![CacheKey(policy[c])].ok = @ + 1]
    /\ UNCHANGED <<mu, ret, ctxDone, items, waited>>

\* The fetch returns what the remote side answered.
EnrichReturn(c) ==
    /\ pc[c] = "enrich"
    /\ \E r \in ResponsesCtx(policy[c], ctxDone[c] # "no") :
         LET e == Fetch(variant, r)
         IN  IF e.err # NoErr
             THEN FetchFailed(c, e.err)
             ELSE FetchSucceeded(c, e.resp)
    /\ UNCHANGED <<variant, defaultExpiration, cleanupInterval, now, policy,
                   calls>>
    /\ UNCHANGED batchVars

\* Mutant of Set: storing an entry clears the rest of the cache.
SetFlushing(c) ==
    /\ pc[c] = "set"
    /\ items' = [k \in RuleIds |->
                    IF k = CacheKey(policy[c])
                    THEN CacheSet(items, k, compliance[c], defaultExpiration,
                                  now)[k]
                    ELSE NoItem]
    /\ pc' = [pc EXCEPT ![c] = "ret"]
    /\ UNCHANGED <<variant, defaultExpiration, cleanupInterval, mu, now,
                   policy, ctxDone, compliance, waited, ret, calls, fetches>>
    /\ UNCHANGED batchVars

\* c.cache.Set(policy.PolicyRuleId, compliance, cache.DefaultExpiration).
Set(c) ==
    /\ pc[c] = "set"
    /\ items' = CacheSet(items, CacheKey(policy[c]), compliance[c],
                         defaultExpiration, now)
    /\ pc' = [pc EXCEPT ![c] = "ret"]
    /\ UNCHANGED <<variant, defaultExpiration, cleanupInterval, mu, now,
                   policy, ctxDone, compliance, waited, ret, calls, fetches>>
    /\ UNCHANGED batchVars

\* Mutant of Return: the success path returns with the mutex still held.
ReturnLocked(c) ==
    /\ pc[c] = "ret"
    /\ Returns(c, compliance[c], NoErr, "fetched")
    /\ waited' = [waited EXCEPT ![c] = NoErr]
    /\ UNCHANGED <<variant, defaultExpiration, cleanupInterval, items, now,
                   policy, calls, fetches, mu>>
    /\ UNCHANGED batchVars

\* return compliance, nil: the deferred Unlock runs.
Return(c) ==
    /\ pc[c] = "ret"
    /\ Returns(c, compliance[c], NoErr, "fetched")
    /\ Unlock
    /\ waited' = [waited EXCEPT ![c] = NoErr]
    /\ UNCHANGED <<variant, defaultExpiration, cleanupInterval, items, now,
                   policy, calls, fetches>>
    /\ UNCHANGED batchVars

\* The caller's ctx is cancelled or its deadline passes during the call;
\* "lock" records that it happened while the caller waited for the mutex
\* that another caller holds.
Cancel(c) ==
    /\ pc[c] # "idle"
    /\ ctxDone[c] = "no"
    /\ ctxDone' = [ctxDone EXCEPT ![c] =
                      IF pc[c] = "lock" /\ mu # 0 THEN "lock" ELSE "yes"]
    /\ UNCHANGED <<variant, defaultExpiration, cleanupInterval, items, mu,
                   now, pc, policy, compliance, waited, ret, calls, fetches>>
    /\ UNCHANGED batchVars

\* ------------------------------------------------------------ environment
\* Time passes.
Tick ==
    /\ now < MaxTime
    /\ now' = now + 1
    /\ UNCHANGED <<variant, defaultExpiration, cleanupInterval, items, mu,
                   pc, policy, ctxDone, compliance, waited, ret, calls, fetches>>
    /\ UNCHANGED batchVars

\* go-cache's janitor (started when the cleanup interval is positive) runs
\* DeleteExpired.
Janitor ==
    /\ cleanupInterval > 0
    /\ \E k \in RuleIds : items[k] # NoItem /\ Expired(items[k], now)
    /\ items' = [k \in RuleIds |->
                    IF items[k] # NoItem /\ Expired(items[k], now)
                    THEN NoItem ELSE items[k]]
    /\ UNCHANGED <<variant, defaultExpiration, cleanupInterval, mu, now, pc,
                   policy, ctxDone, compliance, waited, ret, calls, fetches>>
    /\ UNCHANGED batchVars

\* ------------------------------------------------------------ processLogs
\* The statuses Extract reads off a record.
Statuses == {"Passed"}

\* A log record as the batch carries it.
Record(n) == [id |-> n, attrs |-> "orig", enrichment |-> ZeroCompliance,
              status |-> ""]

\* The records a..b, in order.
Records(a, b) == [x \in 1..(b - a + 1) |-> Record(a + x - 1)]

\* Batches of n records: one scope of one resource; one resource per record;
\* and one with an empty scope and an empty resource between the records.
BatchesOf(n) ==
    { << << Records(1, n) >> >>,
      [x \in 1..n |-> << Records(x, x) >>],
      << << <<>>, Records(1, IF n < 1 THEN n ELSE 1) >>, <<>>,
         << Records(2, n) >> >> }

Batches == UNION { BatchesOf(n) : n \in 0..MaxRecords }

End == <<0, 0, 0>>

\* The three nested for loops: the first record at or after (i, j, k), or
\* End when the loops run out.
RECURSIVE Seek(_, _, _, _)
Seek(b, i, j, k) ==
    IF i > Len(b) THEN End
    ELSE IF j > Len(b[i]) THEN Seek(b, i + 1, 1, 1)
    ELSE IF k > Len(b[i][j]) THEN Seek(b, i, j + 1, 1)
    ELSE <<i, j, k>>

LogRecord == ld[proc.pos[1]][proc.pos[2]][proc.pos[3]]

Event(op, ok) == [id |-> LogRecord.id, op |-> op, ok |-> ok]

\* applier.Extract on a record: (policy, status, err).
ExtractResults ==
    { [policy |-> p, status |-> st, err |-> NoErr] : p \in Policies, st \in Statuses }
    \cup { [policy |-> NoPolicy, status |-> "", err |-> <<"extract">>] }

\* applier.Apply on a record: the record afterwards and err. A failing
\* Apply may have written part of the attributes.
ApplyResults(rec, enrichment, status) ==
    { [rec |-> [rec EXCEPT !.attrs = "enriched", !.enrichment = enrichment,
                           !.status = status],
       err |-> NoErr],
      [rec |-> rec, err |-> <<"apply">>],
      [rec |-> [rec EXCEPT !.attrs = "partial"], err |-> <<"apply">>] }

\* Mutant of Continue: processLogs returns an error instead of continuing.
ContinueAborts(p) ==
    [p EXCEPT !.pos = End, !.state = "done", !.err = <<"aborted">>]

\* k++ and the loop conditions; past the last record processLogs returns
\* (ld, nil).
Continue(p) ==
    LET nxt == Seek(ld, p.pos[1], p.pos[2], p.pos[3] + 1)
    IN  [p EXCEPT !.pos = nxt, !.step = "extract", !.status = "",
                  !.state = IF nxt = End THEN "done" ELSE "run",
                  !.err = NoErr]

\* processLogs is entered: the loops reach the first record, if any.
ProcessLogs ==
    /\ proc.state = "new"
    /\ LET first == Seek(ld, 1, 1, 1)
       IN  proc' = [proc EXCEPT !.pos = first,
                                !.state = IF first = End THEN "done" ELSE "run"]
    /\ UNCHANGED <<variant, defaultExpiration, cleanupInterval, items, mu,
                   now, pc, policy, ctxDone, compliance, waited, ret, calls,
                   fetches, ld, trace>>

\* applier.Extract(logRecord): on an error log and continue, else call
\* t.client.Retrieve(ctx, policy).
Extract ==
    /\ proc.state = "run"
    /\ proc.step = "extract"
    /\ \E x \in ExtractResults :
         IF x.err # NoErr
         THEN /\ proc' = Continue(proc)
              /\ trace' = Append(trace, Event("Extract", FALSE))
              /\ UNCHANGED <<pc, policy, ret, calls>>
         ELSE /\ proc' = [proc EXCEPT !.step = "retrieve", !.status = x.status]
              /\ trace' = trace \o <<Event("Extract", TRUE), Event("Retrieve", TRUE)>>
              /\ pc' = [pc EXCEPT ![Processor] = "get1"]
              /\ policy' = [policy EXCEPT ![Processor] = x.policy]
              /\ ret' = [ret EXCEPT ![Processor] = NoRet]
              /\ calls' = calls + 1
    /\ UNCHANGED <<variant, defaultExpiration, cleanupInterval, items, mu,
                   now, ctxDone, compliance, waited, fetches, ld>>

\* Retrieve has returned: on an error log and continue, else
\* applier.Apply(logRecord, enrichment, status), whose error is only logged.
Apply ==
    /\ proc.state = "run"
    /\ proc.step = "retrieve"
    /\ pc[Processor] = "idle"
    /\ IF ret[Processor].err # NoErr
       THEN /\ trace' = [trace EXCEPT ![Len(trace)].ok = FALSE]
            /\ UNCHANGED ld
       ELSE \E a \in ApplyResults(LogRecord, ret[Processor].val, proc.status) :
              /\ ld' = [ld EXCEPT ![proc.pos[1]][proc.pos[2]][proc.pos[3]] = a.rec]
              /\ trace' = Append(trace, Event("Apply", a.err = NoErr))
    /\ proc' = Continue(proc)
    /\ UNCHANGED <<variant, defaultExpiration, cleanupInterval, items, mu,
                   now, pc, policy, ctxDone, compliance, waited, ret, calls,
                   fetches>>

\* ------------------------------------------------------------------- spec
\* NewCacheableClient(client, logger, ttl), no call made yet.
InitClient(v, ttl) ==
    /\ variant = v
    /\ defaultExpiration = ttl
    /\ cleanupInterval = CleanupIntervalFor(ttl)
    /\ items = [k \in RuleIds |-> NoItem]
    /\ mu = 0
    /\ now = 0
    /\ pc = [c \in Callers |-> "idle"]
    /\ policy = [c \in Callers |-> NoPolicy]
    /\ ctxDone = [c \in Callers |-> "no"]
    /\ compliance = [c \in Callers |-> ZeroCompliance]
    /\ waited = [c \in Callers |-> NoErr]
    /\ ret = [c \in Callers |-> NoRet]
    /\ calls = 0
    /\ fetches = [k \in RuleIds |-> NoFetches]

NoProc == [state |-> "off", pos |-> <<0, 0, 0>>, step |-> "extract",
           status |-> "", err |-> NoErr]

NoBatch ==
    /\ ld = <<>>
    /\ proc = NoProc
    /\ trace = <<>>

Init ==
    /\ \E ttl \in TTLValues : InitClient("cacheable", ttl)
    /\ NoBatch

Next ==
    \/ \E c \in Callers, p \in Policies : Call(c, p)
    \/ \E c \in Callers : FirstCheck(c)
    \/ \E c \in Callers : Lock(c)
    \/ \E c \in Callers : SecondCheck(c)
    \/ \E c \in Callers : CallEnrich(c)
    \/ \E c \in Callers : EnrichReturn(c)
    \/ \E c \in Callers : Set(c)
    \/ \E c \in Callers : Return(c)
    \/ Tick
    \/ Janitor

Spec == Init /\ [][Next]_vars

\* The same client with callers whose ctx may be cancelled during the call.
NextCtx ==
    \/ Next
    \/ \E c \in Callers : Cancel(c)

SpecCtx == Init /\ [][NextCtx]_vars

\* The processor runs processLogs on one batch, over a client whose cache
\* never expires.
InitBatch ==
    /\ InitClient("cacheable", NoExpiration)
    /\ ld \in Batches
    /\ proc = [NoProc EXCEPT !.state = "new"]
    /\ trace = <<>>

NextBatch ==
    \/ ProcessLogs
    \/ Extract
    \/ Apply
    \/ FirstCheck(Processor)
    \/ Lock(Processor)
    \/ SecondCheck(Processor)
    \/ CallEnrich(Processor)
    \/ EnrichReturn(Processor)
    \/ Set(Processor)
    \/ Return(Processor)

SpecBatch == InitBatch /\ [][NextBatch]_vars

\* Both Retrieve implementations of the repository.
InitAll ==
    /\ \E v \in Variants, ttl \in TTLValues : InitClient(v, ttl)
    /\ NoBatch

SpecAll == InitAll /\ [][Next]_vars

\* The Go scheduler runs every goroutine that can run, every fetch returns,
\* and a goroutine waiting in c.mu.Lock() gets the mutex in the end
\* (sync.Mutex hands it over to a starving waiter).
Fairness ==
    \A c \in Callers :
        /\ WF_vars(FirstCheck(c))
        /\ SF_vars(Lock(c))
        /\ WF_vars(SecondCheck(c))
        /\ WF_vars(CallEnrich(c))
        /\ WF_vars(EnrichReturn(c))
        /\ WF_vars(Set(c))
        /\ WF_vars(Return(c))

\* The steps of the Retrieve calls alone: no time passes.
NextCalls ==
    \/ \E c \in Callers, p \in Policies : Call(c, p)
    \/ \E c \in Callers : FirstCheck(c)
    \/ \E c \in Callers : Lock(c)
    \/ \E c \in Callers : SecondCheck(c)
    \/ \E c \in Callers : CallEnrich(c)
    \/ \E c \in Callers : EnrichReturn(c)
    \/ \E c \in Callers : Set(c)
    \/ \E c \in Callers : Return(c)

InitCalls ==
    /\ InitClient("cacheable", NoExpiration)
    /\ NoBatch

SpecCalls == InitCalls /\ [][NextCalls]_vars

SpecFair == SpecCalls /\ Fairness

\* The client constructed with any ttl the configuration can give.
InitTTL ==
    /\ \E ttl \in ConfigTTLs : InitClient("cacheable", ttl)
    /\ NoBatch

SpecTTL == InitTTL /\ [][Next]_vars

\* processLogs runs on one batch while other goroutines call Retrieve on the
\* same client.
NextShared ==
    \/ NextBatch
    \/ \E c \in Callers \ {Processor}, p \in Policies : Call(c, p)
    \/ \E c \in Callers \ {Processor} : FirstCheck(c)
    \/ \E c \in Callers \ {Processor} : Lock(c)
    \/ \E c \in Callers \ {Processor} : SecondCheck(c)
    \/ \E c \in Callers \ {Processor} : CallEnrich(c)
    \/ \E c \in Callers \ {Processor} : EnrichReturn(c)
    \/ \E c \in Callers \ {Processor} : Set(c)
    \/ \E c \in Callers \ {Processor} : Return(c)

\* The batch is one scope of MaxRecords records; the client never expires.
InitShared ==
    /\ InitClient("cacheable", NoExpiration)
    /\ ld = << << Records(1, MaxRecords) >> >>
    /\ proc = [NoProc EXCEPT !.state = "new"]
    /\ trace = <<>>

SpecShared == InitShared /\ [][NextShared]_vars

\* ----------------------------------------------------------------- claims
Key(c) == CacheKey(policy[c])

Found(k) == CacheGet(items, k, now).found

\* The callers whose callEnrich for k is invoked and has not returned.
InFlight(k) == { c \in Callers : pc[c] = "enrich" /\ Key(c) = k }

\* The fetches for k that returned an error.
Failed(k) == fetches[k].started - fetches[k].ok - Cardinality(InFlight(k))

\* The caller's last Retrieve call has returned.
Done(c) == pc[c] = "idle" /\ ret[c].how # "none"

\* No item can have expired yet.
NoExpiryYet == defaultExpiration <= 0 \/ now <= defaultExpiration

\* C1: while no entry can have expired and no fetch for k has failed, the
\* Retrieve calls for k, however interleaved, cause exactly one callEnrich
\* for k, and every caller returns the same Compliance with a nil error.
C1_Dedup ==
    \A k \in RuleIds :
        (NoExpiryYet /\ Failed(k) = 0) =>
            /\ fetches[k].started <= 1
            /\ \A c \in Callers :
                 (Done(c) /\ Key(c) = k) =>
                     /\ ret[c].err = NoErr
                     /\ fetches[k].started = 1
            /\ \A c, d \in Callers :
                 (Done(c) /\ Done(d) /\ Key(c) = k /\ Key(d) = k) =>
                     ret[c].val = ret[d].val

\* Two callers missed the same key concurrently: one fetched, the other
\* found the entry on its second check.
C1_Witness ==
    \E c, d \in Callers :
        /\ Done(c) /\ Done(d) /\ Key(c) = Key(d)
        /\ ret[c].how = "fetched" /\ ret[d].how = "second"
        /\ NoExpiryYet /\ Failed(Key(c)) = 0

\* C2: a caller that waited for the mutex while a fetch for its key failed
\* observes that fetch's outcome: no fetch of its own is started for it.
C2_SharedOutcome ==
    \A c \in Callers :
        waited[c] # NoErr => pc[c] \notin {"enrich", "set", "ret"}

\* C3: at most one callEnrich is in flight, in both Retrieve variants.
C3_OneFetchInFlight ==
    Cardinality({ c \in Callers : pc[c] = "enrich" }) <= 1

\* part_000's Retrieve fetches while another caller waits for the mutex.
C3_Witness ==
    \E c, d \in Callers :
        /\ variant = "part_000"
        /\ pc[c] = "enrich" /\ pc[d] = "lock"

\* C4: a Retrieve whose first lookup finds an unexpired entry returns the
\* stored value with a nil error; it takes no lock and starts no fetch.
C4_HitNoFetch ==
    [][\A c \in Callers :
          (pc[c] = "get1" /\ Found(Key(c)) /\ pc'[c] # "get1") =>
              /\ pc'[c] = "idle"
              /\ ret'[c].val = items[Key(c)].Object
              /\ ret'[c].err = NoErr
              /\ fetches' = fetches
              /\ mu' = mu]_vars

\* A first-lookup hit returned while another caller, which has just stored
\* the entry, still holds the mutex.
C4_Witness ==
    \E c, d \in Callers :
        /\ Done(c) /\ ret[c].how = "first" /\ ret[c].err = NoErr
        /\ ret[c].val # ZeroCompliance
        /\ pc[d] = "ret" /\ mu = d

\* C5: when the fetch of Retrieve(K) fails, Retrieve returns an error and
\* the zero Compliance, releases the mutex, leaves the store unchanged, and
\* the store has no entry for K afterwards.
C5_NoNegativeCaching ==
    [][\A c \in Callers :
          (/\ pc[c] = "enrich" /\ pc'[c] # "enrich"
           /\ fetches'[Key(c)].ok = fetches[Key(c)].ok) =>
              /\ pc'[c] = "idle"
              /\ ret'[c].err # NoErr
              /\ ret'[c].val = ZeroCompliance
              /\ items' = items
              /\ ~CacheGet(items', Key(c), now').found
              /\ mu' = 0]_vars

\* After a failed Retrieve(K) a later Retrieve(K) is fetching again.
C5_Witness ==
    \E c, d \in Callers :
        /\ Done(c) /\ ret[c].how = "failed" /\ ret[c].err # NoErr
        /\ pc[d] = "enrich" /\ Key(d) = Key(c)
        /\ fetches[Key(c)].started >= 2
        /\ ~Found(Key(c))

\* C6, in every state: with a finite TTL a fetch for k runs only while k has
\* no unexpired entry, and while no fetch for k has failed the n-th fetch
\* for k starts only after n-1 whole lifetimes have passed.
C6_Inv ==
    defaultExpiration > 0 =>
        \A k \in RuleIds :
            /\ \A c \in Callers :
                 (pc[c] \in {"call", "enrich"} /\ Key(c) = k) => ~Found(k)
            /\ (Failed(k) = 0 /\ fetches[k].started >= 1) =>
                 (fetches[k].started - 1) * (defaultExpiration + 1) <= now

\* C6, in every step: a lookup of an unexpired entry returns without a
\* fetch; a lookup of an expired or absent entry goes on towards the fetch.
C6_Act ==
    defaultExpiration > 0 =>
        \A c \in Callers :
            (pc[c] \in {"get1", "get2"} /\ pc'[c] # pc[c]) =>
                IF Found(Key(c))
                THEN pc'[c] = "idle" /\ fetches' = fetches
                ELSE pc'[c] \in {"lock", "call"}

C7_NeverExpire ==
    defaultExpiration = NoExpiration =>
        \A k \in RuleIds :
            /\ fetches[k].ok <= 1
            /\ fetches[k].ok = 1 =>
                 \A c \in Callers :
                    Key(c) = k => pc[c] \notin {"call", "enrich"}

\* All the time of the model has passed, every call was made, and the key
\* fetched once is still served from the cache.
C7_Witness ==
    \E c \in Callers :
        /\ defaultExpiration = NoExpiration
        /\ now = MaxTime /\ calls = MaxCalls
        /\ Done(c) /\ ret[c].how = "first"
        /\ fetches[Key(c)].started = 1 /\ fetches[Key(c)].ok = 1

\* The concatenation of a sequence of sequences.
RECURSIVE Concat(_)
Concat(ss) == IF ss = <<>> THEN <<>> ELSE Head(ss) \o Concat(Tail(ss))

\* The records of a batch, in the batch's order.
AllRecords(b) == Concat([i \in 1..Len(b) |-> Concat(b[i])])

\* The calls of op that processLogs made.
Calls(op) == SelectSeq(trace, LAMBDA e : e.op = op)

CallsOn(op, id) == SelectSeq(trace, LAMBDA e : e.op = op /\ e.id = id)

Succeeded(op, id) == \E x \in 1..Len(trace) :
    trace[x].op = op /\ trace[x].id = id /\ trace[x].ok

\* processLogs is done with the record.
Finished(id) ==
    \/ proc.state = "done"
    \/ proc.state = "run" /\ id < LogRecord.id

\* C8: processLogs visits the records in the batch's order, each once;
\* Retrieve is called only after a successful Extract and Apply exactly
\* after a successful Extract and Retrieve; a record without Apply is left
\* as it was; processLogs returns the batch, every record visited, and nil.
C8_ContinueOnError ==
    LET recs == AllRecords(ld)
        n == Len(recs)
        ex == Calls("Extract")
    IN  /\ Len(ex) <= n
        /\ \A x \in 1..Len(ex) : ex[x].id = x
        /\ \A x \in 1..n : recs[x].id = x
        /\ \A id \in 1..n :
             /\ Len(CallsOn("Retrieve", id)) <= 1
             /\ Len(CallsOn("Apply", id)) <= 1
             /\ Len(CallsOn("Retrieve", id)) = 1 => Succeeded("Extract", id)
             /\ Finished(id) =>
                  /\ Len(CallsOn("Extract", id)) = 1
                  /\ Len(CallsOn("Apply", id)) = 1 <=>
                        (Succeeded("Extract", id) /\ Succeeded("Retrieve", id))
                  /\ Len(CallsOn("Apply", id)) = 0 => recs[id] = Record(id)
                  /\ Succeeded("Apply", id) => recs[id].attrs = "enriched"
        /\ proc.state = "done" => (proc.err = NoErr /\ Len(ex) = n)

\* A batch of three whose second record failed extraction: records 1 and 3
\* are enriched, record 2 is as it was, processLogs returned nil.
C8_Witness ==
    LET recs == AllRecords(ld)
    IN  /\ proc.state = "done" /\ proc.err = NoErr
        /\ Len(recs) = 3
        /\ ~Succeeded("Extract", 2)
        /\ recs[1].attrs = "enriched" /\ recs[3].attrs = "enriched"
        /\ recs[2] = Record(2)

\* C9: a successful Retrieve(P) returns a value that was fetched for a
\* policy equal to P in rule id and engine name.
C9_KeyCollisionFree ==
    \A c \in Callers :
        (Done(c) /\ ret[c].err = NoErr) => ret[c].val.policy = policy[c]

\* C10: a caller whose ctx is done while it waits for the mutex returns
\* without ever holding the mutex.
C10_CancelledWaiterReturns ==
    \A c \in Callers : ctxDone[c] = "lock" => (pc[c] = "lock" /\ mu # c)

\* C11, in every state: the first lookup can be taken whoever holds the mutex.
C11_Inv == \A c \in Callers : pc[c] = "get1" => ENABLED FirstCheck(c)

\* C11, in every step: a first lookup that finds the key returns in that
\* step and leaves the mutex as it is.
C11_Act ==
    \A c \in Callers :
        (pc[c] = "get1" /\ Found(Key(c)) /\ pc'[c] # "get1") =>
            /\ pc'[c] = "idle" /\ ret'[c].how = "first"
            /\ mu' = mu

\* C11: a cache hit on the first lookup never suspends: it neither waits for
\* nor acquires the mutex, so it completes while another caller holds the
\* mutex during a fetch of a different key that may never return.
C11_HitNeverSuspends == []C11_Inv /\ [][C11_Act]_vars

\* A first-lookup hit returned while another caller's fetch of a different
\* key is in flight under the mutex.
C11_Witness ==
    \E c, d \in Callers :
        /\ Done(c) /\ ret[c].how = "first"
        /\ pc[d] = "enrich" /\ mu = d /\ Key(d) # Key(c)

\* The callEnrich invocations made so far, over the keys of S.
RECURSIVE Started(_)
Started(S) ==
    IF S = {} THEN 0
    ELSE LET k == CHOOSE x \in S : TRUE
         IN  fetches[k].started + Started(S \ {k})

\* The calls in progress that have not invoked callEnrich.
NotFetchedYet == { c \in Callers : pc[c] \in {"get1", "lock", "get2", "call"} }

\* C12: Retrieve does not retry: the callEnrich invocations never outnumber
\* the Retrieve calls that got as far as the fetch, so every call invokes
\* callEnrich at most once, whatever the fetch answered.
C12_NoRetry == Started(RuleIds) + Cardinality(NotFetchedYet) <= calls

\* One Retrieve call whose fetch got an unexpected response returned the
\* error after a single callEnrich.
C12_Witness ==
    \E c \in Callers :
        /\ Done(c) /\ ret[c].how = "failed"
        /\ ret[c].err = <<"failed to fetch metadata",
                          "unexpected response status", "status">>
        /\ calls = 1 /\ Started(RuleIds) = 1

\* The parts of an error's message.
Parts(err) == { err[i] : i \in 1..Len(err) }

\* C13: the error Retrieve returns for a failed fetch wraps the fetcher's
\* error and names the rule id of the key that failed.
C13_ErrorIdentifiesKey ==
    \A c \in Callers :
        (Done(c) /\ ret[c].err # NoErr) =>
            /\ Head(ret[c].err) = "failed to fetch metadata"
            /\ policy[c].PolicyRuleId \in Parts(ret[c].err)

\* The kind of error callEnrich returns: the head of its message.
ErrKind(r) ==
    LET err == callEnrich(r).err
    IN  IF err = NoErr THEN "" ELSE Head(err)

\* C14: callEnrich returns the transport or parse error as it is, the body
\* and nil for JSON200, an error with the remote code and message for
\* JSONDefault, an "unexpected response status" error for anything else;
\* only JSON200 gives a nil error, the kinds of error are distinct, and no
\* zero Compliance is ever cached or returned with a nil error.
C14_FetcherOutcomes ==
    /\ \A p \in Policies : \A r \in Responses(p) :
         LET e == callEnrich(r)
         IN  /\ (e.err = NoErr) <=> (r.kind = "json200")
             /\ r.kind = "json200" => (e.resp = r.body /\ e.resp # ZeroCompliance)
             /\ r.kind # "json200" => e.resp = ZeroCompliance
             /\ r.kind \in {"transport", "parse"} => e.err = <<r.kind>>
             /\ r.kind = "jsonDefault" => {"code", "message"} \subseteq Parts(e.err)
             /\ r.kind = "other" => ErrKind(r) = "unexpected response status"
             /\ \A q \in Responses(p) :
                  (r.kind # q.kind /\ r.kind # "json200" /\ q.kind # "json200")
                      => ErrKind(r) # ErrKind(q)
    /\ \A k \in RuleIds : items[k] # NoItem => items[k].Object # ZeroCompliance
    /\ \A c \in Callers :
         (Done(c) /\ ret[c].err = NoErr) => ret[c].val # ZeroCompliance

\* A Retrieve whose fetch got a structured error body returned the error
\* with the remote code and message, and nothing was cached.
C14_Witness ==
    \E c \in Callers :
        /\ Done(c)
        /\ ret[c].err = <<"failed to fetch metadata",
                          "API call failed with status", "code", "message">>
        /\ ret[c].val = ZeroCompliance
        /\ items[Key(c)] = NoItem

\* The positions of Retrieve between c.mu.Lock() and the deferred Unlock.
Locked == {"get2", "call", "enrich", "set", "ret"}

\* C15, in every state: the mutex is held exactly by the one caller between
\* Lock and its return; with no Retrieve in progress it is free and no fetch
\* is pending.
C15_Inv ==
    /\ \A c \in Callers : (mu = c) <=> (pc[c] \in Locked)
    /\ (\A c \in Callers : pc[c] = "idle") =>
           (mu = 0 /\ \A k \in RuleIds : InFlight(k) = {})

\* C15: the mutex is released on every exit path of Retrieve, and when
\* every fetch returns and the mutex is handed over fairly, every Retrieve
\* call returns.
C15_LockDiscipline ==
    /\ []C15_Inv
    /\ \A c \in Callers : (pc[c] # "idle") ~> (pc[c] = "idle")

\* Every call was made and has returned, one through the error path and one
\* after a successful fetch of the same key, and the mutex is free.
C15_Witness ==
    \E c, d \in Callers :
        /\ calls = MaxCalls /\ \A e \in Callers : pc[e] = "idle"
        /\ ret[c].how = "failed" /\ ret[d].how = "fetched" /\ Key(c) = Key(d)
        /\ mu = 0

\* The callers about to execute cache.Set.
Writers == { c \in Callers : pc[c] = "set" }

\* C16, in every state: a caller at cache.Set holds the mutex, and at most
\* one caller is there.
C16_Inv ==
    /\ \A c \in Writers : mu = c
    /\ Cardinality(Writers) <= 1

\* C16, in every step: an entry is stored only by the step of a caller at
\* cache.Set that holds the mutex.
C16_Act ==
    \A k \in RuleIds :
        (items'[k] # items[k] /\ items'[k] # NoItem) =>
            \E c \in Writers : mu = c /\ Key(c) = k /\ pc'[c] = "ret"

\* C16: every cache.Set of Retrieve, in both variants, is made by the
\* holder of the mutex, so two store writes are never concurrent.
C16_WritesUnderLock == []C16_Inv /\ [][C16_Act]_vars

\* part_000's Retrieve is about to store while another caller, which missed
\* the same key, waits for the mutex.
C16_Witness ==
    \E c, d \in Callers :
        /\ variant = "part_000"
        /\ pc[c] = "set" /\ mu = c
        /\ pc[d] = "lock" /\ Key(d) = Key(c)

\* C17, in every state: part_000 has no second lookup.
C17_Inv == variant = "part_000" => \A c \in Callers : pc[c] # "get2"

\* C17, in every step: in part_000 the caller that gets the mutex goes on to
\* the fetch, whether or not the key is in the store by then.
C17_Act ==
    variant = "part_000" =>
        \A c \in Callers :
            (pc[c] = "lock" /\ pc'[c] # "lock") => (pc'[c] = "call" /\ mu' = c)

\* C17: part_000's Retrieve fetches unconditionally after acquiring the
\* mutex, without looking the key up again.
C17_Part000Refetches == []C17_Inv /\ [][C17_Act]_vars

\* Two concurrent Retrieve calls of part_000 on one uncached key, every
\* fetch succeeding and nothing expired: callEnrich ran twice for the key.
C17_Witness ==
    \E c, d \in Callers :
        /\ variant = "part_000" /\ c # d
        /\ Done(c) /\ Done(d) /\ Key(c) = Key(d)
        /\ ret[c].how = "fetched" /\ ret[d].how = "fetched"
        /\ calls = 2 /\ now = 0
        /\ fetches[Key(c)] = [started |-> 2, ok |-> 2]

\* C18: the cleanup interval is -1 for ttl = -1 and ttl/2 otherwise, and
\* with any ttl other than -1 every stored entry expires ttl after it was
\* stored: only ttl = -1 makes entries that never expire.
C18_OnlyNoExpirationNeverExpires ==
    /\ cleanupInterval =
           (IF defaultExpiration = NoExpiration THEN NoExpiration
            ELSE GoDiv(defaultExpiration, 2))
    /\ defaultExpiration # NoExpiration =>
           \A k \in RuleIds :
               items[k] # NoItem =>
                   /\ items[k].Expiration > 0
                   /\ items[k].Expiration <= now + defaultExpiration

\* C19, in every step: an entry is written only over an absent or expired
\* one, and a Retrieve that returns with a nil error while its key has a
\* live entry returns that entry's value.
C19_Act ==
    /\ \A k \in RuleIds :
         (items'[k] # items[k] /\ items'[k] # NoItem) => ~Found(k)
    /\ \A c \in Callers :
         (/\ pc[c] # "idle" /\ pc'[c] = "idle" /\ ret'[c].err = NoErr
          /\ CacheGet(items', Key(c), now').found) =>
             ret'[c].val = items'[Key(c)].Object

\* C19: cacheable.go's Retrieve never overwrites a live entry, so between
\* two expiries every successful Retrieve(K) returns the value of the one
\* fetch that populated the entry.
C19_LiveEntryKept == [][C19_Act]_vars

\* After an expiry a second fetch replaced the entry of a key: the caller
\* that fetched first still has the old value, the later one the new value.
C19_Witness ==
    \E c, d \in Callers :
        /\ Done(c) /\ Done(d) /\ Key(c) = Key(d)
        /\ ret[c].how = "fetched" /\ ret[d].how = "fetched"
        /\ ret[c].val # ret[d].val
        /\ Found(Key(d)) /\ items[Key(d)].Object = ret[d].val

\* C20, in every step: an entry changes only under the cache key of a
\* caller at cache.Set after a successful fetch, to that caller's fetched
\* value, or is an expired entry the janitor removes.
C20_Act ==
    \A k \in RuleIds :
        items'[k] # items[k] =>
            \/ \E c \in Callers :
                 /\ pc[c] = "set" /\ pc'[c] = "ret" /\ Key(c) = k
                 /\ items'[k].Object = compliance[c]
                 /\ compliance[c] # ZeroCompliance
                 /\ \A j \in RuleIds \ {k} : items'[j] = items[j]
            \/ /\ \A c \in Callers : pc'[c] = pc[c]
               /\ cleanupInterval > 0
               /\ Expired(items[k], now)
               /\ items'[k] = NoItem

\* C20: Retrieve for policy P changes at most the entry under P's own cache
\* key, and only on a successful fetch; it deletes no entry and touches no
\* other key's entry.
C20_Frame == [][C20_Act]_vars

\* A Retrieve stored the entry of one key while the entry of another key,
\* stored before, is still as it was.
C20_Witness ==
    \E c, d \in Callers :
        /\ pc[c] = "ret" /\ Done(d) /\ ret[d].how = "fetched"
        /\ Key(c) # Key(d)
        /\ items[Key(c)].Object = compliance[c]
        /\ items[Key(d)].Object = ret[d].val

====
